---- MODULE Spec2Model ----
(***************************************************************************)
(* Resilience and authorization core of the AI code reviewer:              *)
(*   - RateLimiter      (src/src/security/rate_limiter.py)                 *)
(*   - CircuitBreaker   (src/src/security/circuit_breaker.py)              *)
(*   - RBACManager      (src/src/auth/rbac.py)                             *)
(* Time is an integer clock `now`; one tick is one resolution step of the  *)
(* clock the code reads (datetime.now()), so two calls made within the     *)
(* same tick observe the same clock value.                                 *)
(***************************************************************************)
EXTENDS Integers, FiniteSets, Sequences, TLC

\* ------------------------------------------------------------------ bounds
MaxTime == 3
MaxRequests == 2
MaxWindow == 2
MaxThreshold == 2
MaxTimeout == 2
MaxAttempts == 2
MaxFailures == 3

VARIABLES
    now,        \* the clock read by datetime.now()
    \* ---- RateLimiter: the shared store and one limiter configuration
    zset,       \* key -> the sorted set of the key (scores; member = str(score))
    expiry,     \* key -> time at which the store drops the key, or NoExpiry
    cfgMax,     \* max_requests passed by the caller
    cfgWin,     \* window_seconds passed by the caller
    last,       \* the decision returned by the latest check_rate_limit
    afterDenial, \* history: the latest check retried, at a later clock value,
                \* the key whose check just before was denied
    admitted,   \* history: key -> time -> number of calls answered allowed=true
                \* (kept for the trailing window, counted up to cfgMax + 1)
    \* ---- RateLimiter: calls in flight in concurrent workers
    rlPc,       \* worker -> the store command its call executes next
    rlTime,     \* worker -> current_time of its call
    rlCount,    \* worker -> current_count of its call
    rlResult,   \* worker -> how its latest call ended
    rlRaced,    \* history: worker -> the workers whose count..append it cut into
    \* ---- CircuitBreaker: one breaker instance
    cb,                 \* state, failure_count, last_failure_time,
                        \* half_open_success_count
    failure_threshold,  \* constructor arguments
    timeout_seconds,
    half_open_attempts,
    cbPc,               \* "idle", or "running" while call is inside func
    cbOutcome,          \* how the latest call ended for its caller
    cbInvoked,          \* whether the latest call invoked func
    cbSeq,              \* flips at every call
    opRaised,           \* whether func raised in the latest invocation
    cbBefore,           \* history: the breaker as the latest func outcome found it
    failStreak,         \* history: consecutive failed invocations (no success between)
    probeStreak,        \* history: consecutive successes of the current probing phase
    \* ---- CircuitBreaker: threads inside call on the one instance
    tPc,                \* thread -> the statement it executes next
    tTmp,               \* thread -> the value it loaded for its pending +=
    nReported,          \* history: failures reported, while no call has succeeded
    anySuccess,         \* history: some invocation of func has succeeded
    sinceReset,         \* history: no call has started since the latest _reset
    \* ---- RBACManager: one manager, one token under consideration
    tok,        \* the token string handed around (as its decoded structure)
    req,        \* the arguments of the latest create_token
    genuine,    \* history: tok is exactly what create_token returned
    vres,       \* outcome of the latest verify_token(tok)
    hres,       \* outcome of the latest has_permission(tok, p)
    wres,       \* outcome of the latest call of a require_permission wrapper
    sres,       \* response of the latest protected HTTP dependency
    opState,    \* the state the wrapped operation changes when it runs
    table,      \* the manager's role_permissions attribute
    reqChecks   \* history: check_rate_limit calls made by the latest request

rlVars == <<zset, expiry, cfgMax, cfgWin, last, afterDenial, admitted>>
rlcVars == <<rlPc, rlTime, rlCount, rlResult, rlRaced>>
cbVars == <<cb, failure_threshold, timeout_seconds, half_open_attempts, cbPc,
            cbOutcome, cbInvoked, cbSeq, opRaised, cbBefore, failStreak, probeStreak>>
cbcVars == <<tPc, tTmp, nReported, anySuccess, sinceReset>>
rbVars == <<tok, req, genuine, vres, hres, wres, sres, opState, table, reqChecks>>
vars == <<now, rlVars, rlcVars, cbVars, cbcVars, rbVars>>

\* ============================================================ RateLimiter
Keys == {"user_limit:u1", "ip_limit:h1"}
Times == 0..MaxTime
\* the store's "no TTL set" answer
NoExpiry == -1

Min(S) == CHOOSE m \in S : \A n \in S : m <= n

\* a prune that keeps the member whose score is exactly max
zremrangebyscore_excl(S, max) == {m \in S : m >= max}
\* a count that misses one member
zcard_less(S) == IF S = {} THEN 0 ELSE Cardinality(S) - 1
\* an add that records nothing
zadd_none(S, ts) == S
\* the newest member instead of the oldest
zrange_last(S) == IF S = {} THEN {} ELSE {CHOOSE m \in S : \A n \in S : n <= m}

\* ZREMRANGEBYSCORE key -inf max: drops every member whose score <= max
zremrangebyscore(S, max) == {m \in S : m > max}
zcard(S) == Cardinality(S)
\* ZADD key {str(ts): ts}: the member is the text of the score, so adding a
\* score already present only rewrites that member
zadd(S, ts) == S \cup {ts}
\* ZRANGE key 0 0 WITHSCORES: the oldest member, or nothing
zrange_first(S) == IF S = {} THEN {} ELSE {Min(S)}
\* EXPIRE key seconds, executed by the store at time t
expire(t, seconds) == t + seconds

NoDecision ==
    [key |-> "none", at |-> 0, allowed |-> FALSE, remaining |-> 0,
     reset_at |-> 0, limit |-> 0, error |-> FALSE, count |-> 0,
     raised |-> FALSE, failAt |-> 0]

\* The store as it answers at time t: a key whose TTL has run out is gone.
\* A sorted set that became empty is removed together with its TTL.
Live(S, e, t) == IF e # NoExpiry /\ e <= t THEN {} ELSE S
LiveExp(S, e, t) == IF Live(S, e, t) = {} THEN NoExpiry ELSE e

\* a handler that refuses the request when the store fails
fail_closed(key, max_requests, current_time, failAt) ==
    [key |-> key, at |-> current_time, allowed |-> FALSE, remaining |-> 0,
     reset_at |-> current_time, limit |-> max_requests, error |-> TRUE,
     count |-> 0, raised |-> FALSE, failAt |-> failAt]

\* except redis.RedisError: the decision returned when the failAt-th store
\* command of the call raised; 'error' is the marker
fail_open(key, max_requests, current_time, failAt) ==
    [key |-> key, at |-> current_time, allowed |-> TRUE,
     remaining |-> max_requests, reset_at |-> current_time,
     limit |-> max_requests, error |-> TRUE, count |-> 0, raised |-> FALSE,
     failAt |-> failAt]

\* check_rate_limit(identifier, max_requests, window_seconds, key_prefix) at
\* clock value t against the key's set S with TTL deadline e. failAt = n > 0
\* makes the n-th store command of the call raise redis.RedisError.
\* Result: the set and deadline afterwards, and the decision returned.
check_rate_limit(S, e, key, max_requests, window_seconds, t, failAt) ==
    LET current_time == t
        window_start == current_time - window_seconds
        S0 == Live(S, e, t)
        e0 == LiveExp(S, e, t)
        failOpen == fail_open(key, max_requests, current_time, failAt)
        S1 == zremrangebyscore(S0, window_start)
        e1 == IF S1 = {} THEN NoExpiry ELSE e0
        current_count == zcard(S1)
        S2 == zadd(S1, current_time)
        oldest == zrange_first(S1)
    IN  IF failAt = 1 THEN [zset |-> S0, expiry |-> e0, decision |-> failOpen]
        ELSE IF failAt = 2 THEN [zset |-> S1, expiry |-> e1, decision |-> failOpen]
        ELSE IF current_count < max_requests
        THEN IF failAt = 3 THEN [zset |-> S1, expiry |-> e1, decision |-> failOpen]
             ELSE IF failAt = 4 THEN [zset |-> S2, expiry |-> e1, decision |-> failOpen]
             ELSE [zset |-> S2, expiry |-> expire(t, window_seconds),
                   decision |-> [key |-> key, at |-> t, allowed |-> TRUE,
                                 remaining |-> max_requests - current_count - 1,
                                 reset_at |-> current_time + window_seconds,
                                 limit |-> max_requests, error |-> FALSE,
                                 count |-> current_count, raised |-> FALSE,
                                 failAt |-> 0]]
        ELSE IF failAt = 3 THEN [zset |-> S1, expiry |-> e1, decision |-> failOpen]
             ELSE [zset |-> S1, expiry |-> e1,
                   decision |-> [key |-> key, at |-> t, allowed |-> FALSE,
                                 remaining |-> 0,
                                 reset_at |-> IF oldest # {}
                                              THEN Min(oldest) + window_seconds
                                              ELSE current_time + window_seconds,
                                 limit |-> max_requests, error |-> FALSE,
                                 count |-> current_count, raised |-> FALSE,
                                 failAt |-> 0]]

RLInit ==
    /\ zset = [k \in Keys |-> {}]
    /\ expiry = [k \in Keys |-> NoExpiry]
    /\ cfgMax \in 1..MaxRequests
    /\ cfgWin \in 1..MaxWindow
    /\ last = NoDecision
    /\ afterDenial = FALSE
    /\ admitted = [k \in Keys |-> [t \in Times |-> 0]]

\* The history counts up to one more than the limit: beyond that the window is
\* over its limit whatever the exact number.
Saturate(n) == IF n > cfgMax + 1 THEN cfgMax + 1 ELSE n

\* One sequential call of check_rate_limit on key k: what it does to the store
\* and what it returns.
CheckCore(k, failAt) ==
    LET r == check_rate_limit(zset[k], expiry[k], k, cfgMax, cfgWin, now, failAt)
    IN  /\ failAt = 4 => r.decision.error
        /\ zset' = [zset EXCEPT ![k] = r.zset]
        /\ expiry' = [expiry EXCEPT ![k] = r.expiry]
        /\ last' = [r.decision EXCEPT !.failAt = failAt]
        /\ afterDenial' = (last.key = k /\ ~last.allowed /\ ~last.error /\ last.at < now)
        /\ UNCHANGED <<now, cfgMax, cfgWin>>

CheckRateLimit(k, failAt) ==
    /\ CheckCore(k, failAt)
    /\ UNCHANGED <<admitted, rlcVars, cbVars, cbcVars, rbVars>>

\* The clock advances by one resolution step.
Tick ==
    /\ now < MaxTime
    /\ now' = now + 1
    /\ UNCHANGED <<rlVars, rlcVars, cbVars, cbcVars, rbVars>>

Workers == {"w1", "w2"}
RLCInit ==
    /\ rlPc = [w \in Workers |-> "idle"]
    /\ rlTime = [w \in Workers |-> 0]
    /\ rlCount = [w \in Workers |-> 0]
    /\ rlResult = [w \in Workers |-> "none"]
    /\ rlRaced = [w \in Workers |-> {}]

\* ---- the circuit breaker as constructed (declared here for the initial
\* states of every specification; its operations follow further down)
CLOSED == "closed"
OPEN == "open"
HALF_OPEN == "half_open"
\* last_failure_time = None
None == -1

CBInit ==
    /\ failure_threshold \in 1..MaxThreshold
    /\ timeout_seconds \in 1..MaxTimeout
    /\ half_open_attempts \in 1..MaxAttempts
    /\ cb = [state |-> CLOSED, failure_count |-> 0, last_failure_time |-> None,
             half_open_success_count |-> 0]
    /\ cbPc = "idle"
    /\ cbOutcome = "none"
    /\ cbInvoked = FALSE
    /\ cbSeq = 0
    /\ opRaised = FALSE
    /\ cbBefore = cb
    /\ failStreak = 0
    /\ probeStreak = 0

\* ---- the RBAC manager as constructed (its operations follow further down)
Role == {"ADMIN", "DEVELOPER", "REVIEWER", "VIEWER"}
Permission ==
    {"CONFIGURE_BOT", "VIEW_REPORTS", "APPROVE_REVIEWS", "MANAGE_RULES",
     "VIEW_ANALYTICS"}
\* Role.value
RoleValue(r) ==
    CASE r = "ADMIN" -> "admin"
      [] r = "DEVELOPER" -> "developer"
      [] r = "REVIEWER" -> "reviewer"
      [] r = "VIEWER" -> "viewer"
\* Permission.value
PermissionValue(p) ==
    CASE p = "CONFIGURE_BOT" -> "configure_bot"
      [] p = "VIEW_REPORTS" -> "view_reports"
      [] p = "APPROVE_REVIEWS" -> "approve_reviews"
      [] p = "MANAGE_RULES" -> "manage_rules"
      [] p = "VIEW_ANALYTICS" -> "view_analytics"
\* the dict __init__ assigns to self.role_permissions
InitialTable ==
    [r \in Role |->
        CASE r = "ADMIN" -> <<"CONFIGURE_BOT", "VIEW_REPORTS", "APPROVE_REVIEWS",
                              "MANAGE_RULES", "VIEW_ANALYTICS">>
          [] r = "DEVELOPER" -> <<"VIEW_REPORTS", "APPROVE_REVIEWS", "VIEW_ANALYTICS">>
          [] r = "REVIEWER" -> <<"VIEW_REPORTS", "APPROVE_REVIEWS">>
          [] r = "VIEWER" -> <<"VIEW_REPORTS">>]
\* self.role_permissions[r]
role_permissions(r) == table[r]
\* self.jwt_secret, and a key the manager does not hold
jwt_secret == "JWT_SECRET"
OtherKey == "other key"

NoPayload == [user_id |-> "", role |-> "", permissions |-> <<>>, exp |-> 0, iat |-> 0]
\* the string 'invalid_token': not three base64 segments
Malformed == [claims |-> NoPayload, sig |-> <<"", NoPayload>>, wellformed |-> FALSE]
NoResult == [kind |-> "none", payload |-> NoPayload, at |-> 0]
\* the token keyword argument left out: None
NoneToken == [claims |-> NoPayload, sig |-> <<"None", NoPayload>>, wellformed |-> FALSE]
NoHas == [kind |-> "none", perm |-> "", value |-> FALSE, at |-> 0]
NoWrap == [kind |-> "none", perm |-> "", supplied |-> FALSE, at |-> 0]
NoResp == [kind |-> "none", perm |-> "", status |-> 0, detail |-> "", named |-> "", at |-> 0]

RBInit ==
    /\ tok = Malformed
    /\ req = [user_id |-> "", role |-> "VIEWER", expires_in_hours |-> 0]
    /\ genuine = FALSE
    /\ vres = NoResult
    /\ hres = NoHas
    /\ wres = NoWrap
    /\ sres = NoResp
    /\ opState = 0
    /\ table = InitialTable
    /\ reqChecks = 0

Threads == {"t1", "t2"}
CBCInit ==
    /\ tPc = [t \in Threads |-> "idle"]
    /\ tTmp = [t \in Threads |-> 0]
    /\ nReported = 0
    /\ anySuccess = FALSE
    /\ sinceReset = FALSE

\* a breaker that is constructed and never called
CBIdle ==
    /\ failure_threshold = 1 /\ timeout_seconds = 1 /\ half_open_attempts = 1
    /\ cb = [state |-> CLOSED, failure_count |-> 0, last_failure_time |-> None,
             half_open_success_count |-> 0]
    /\ cbPc = "idle" /\ cbOutcome = "none" /\ cbInvoked = FALSE /\ cbSeq = 0
    /\ opRaised = FALSE /\ cbBefore = cb /\ failStreak = 0 /\ probeStreak = 0
    /\ CBCInit

InitRL == now = 0 /\ RLInit /\ RLCInit /\ CBIdle /\ RBInit
NextRL ==
    \/ \E k \in Keys, failAt \in 0..4 : CheckRateLimit(k, failAt)
    \/ Tick
SpecRL == InitRL /\ [][NextRL]_vars

\* ---- the same calls, with the history of admitted calls kept
CheckRateLimitLogged(k, failAt) ==
    /\ CheckCore(k, failAt)
    /\ admitted' = IF last'.allowed /\ ~last'.error
                   THEN [admitted EXCEPT ![k][now] = Saturate(@ + 1)]
                   ELSE admitted
    /\ UNCHANGED <<rlcVars, cbVars, cbcVars, rbVars>>

TickLogged ==
    /\ now < MaxTime
    /\ now' = now + 1
    /\ admitted' = [k \in Keys |-> [t \in Times |->
                        IF t > now + 1 - cfgWin THEN admitted[k][t] ELSE 0]]
    /\ UNCHANGED <<zset, expiry, cfgMax, cfgWin, last, afterDenial, rlcVars, cbVars, cbcVars, rbVars>>

NextRLHist ==
    \/ \E k \in Keys, failAt \in 0..4 : CheckRateLimitLogged(k, failAt)
    \/ TickLogged
SpecRLHist == InitRL /\ [][NextRLHist]_vars

\* Number of calls on key k answered allowed=true (without error marker) whose
\* timestamps lie in the trailing interval (t - w, t].
RECURSIVE AdmittedIn(_, _, _)
AdmittedIn(k, lo, hi) ==
    IF hi <= lo THEN 0
    ELSE (IF hi \in Times THEN admitted[k][hi] ELSE 0) + AdmittedIn(k, lo, hi - 1)

SharedKey == "user_limit:u1"

StoreNow == Live(zset[SharedKey], expiry[SharedKey], now)
StoreExpNow == LiveExp(zset[SharedKey], expiry[SharedKey], now)
PutStore(S, e) ==
    /\ zset' = [zset EXCEPT ![SharedKey] = S]
    /\ expiry' = [expiry EXCEPT ![SharedKey] = IF S = {} THEN NoExpiry ELSE e]

\* key = ...; current_time = datetime.now(); window_start = ...
RLBegin(w) ==
    /\ rlPc[w] = "idle"
    /\ rlPc' = [rlPc EXCEPT ![w] = "zremrangebyscore"]
    /\ rlTime' = [rlTime EXCEPT ![w] = now]
    /\ rlResult' = [rlResult EXCEPT ![w] = "none"]
    /\ rlRaced' = [x \in Workers |-> IF x = w THEN {} ELSE rlRaced[x] \ {w}]
    /\ UNCHANGED <<now, rlVars, rlCount, cbVars, cbcVars, rbVars>>

RLZremrangebyscore(w) ==
    /\ rlPc[w] = "zremrangebyscore"
    /\ PutStore(zremrangebyscore(StoreNow, rlTime[w] - cfgWin), StoreExpNow)
    /\ rlPc' = [rlPc EXCEPT ![w] = "zcard"]
    /\ UNCHANGED <<now, cfgMax, cfgWin, last, afterDenial, admitted, rlTime, rlCount, rlResult, rlRaced, cbVars, cbcVars, rbVars>>

RLZcard(w) ==
    /\ rlPc[w] = "zcard"
    /\ LET current_count == zcard(StoreNow)
       IN  /\ rlCount' = [rlCount EXCEPT ![w] = current_count]
           /\ rlPc' = [rlPc EXCEPT ![w] =
                          IF current_count < cfgMax THEN "zadd" ELSE "zrange"]
           /\ rlRaced' = [rlRaced EXCEPT ![w] =
                  {x \in Workers \ {w} :
                      /\ rlPc[x] = "zadd"
                      /\ rlCount[x] = current_count
                      /\ current_count = cfgMax - 1}]
    /\ UNCHANGED <<now, rlVars, rlTime, rlResult, cbVars, cbcVars, rbVars>>

RLZadd(w) ==
    /\ rlPc[w] = "zadd"
    /\ PutStore(zadd(StoreNow, rlTime[w]), StoreExpNow)
    /\ rlPc' = [rlPc EXCEPT ![w] = "expire"]
    /\ UNCHANGED <<now, cfgMax, cfgWin, last, afterDenial, admitted, rlTime, rlCount, rlResult, rlRaced, cbVars, cbcVars, rbVars>>

RLExpire(w) ==
    /\ rlPc[w] = "expire"
    /\ PutStore(StoreNow, expire(now, cfgWin))
    /\ rlPc' = [rlPc EXCEPT ![w] = "idle"]
    /\ rlResult' = [rlResult EXCEPT ![w] = "allowed"]
    /\ UNCHANGED <<now, cfgMax, cfgWin, last, afterDenial, admitted, rlTime, rlCount, rlRaced, cbVars, cbcVars, rbVars>>

RLZrange(w) ==
    /\ rlPc[w] = "zrange"
    /\ rlPc' = [rlPc EXCEPT ![w] = "idle"]
    /\ rlResult' = [rlResult EXCEPT ![w] = "denied"]
    /\ UNCHANGED <<now, rlVars, rlTime, rlCount, rlRaced, cbVars, cbcVars, rbVars>>

\* the store command about to run raises redis.RedisError: fail open
RLRedisError(w) ==
    /\ rlPc[w] \notin {"idle"}
    /\ rlPc' = [rlPc EXCEPT ![w] = "idle"]
    /\ rlResult' = [rlResult EXCEPT ![w] = "error"]
    /\ UNCHANGED <<now, rlVars, rlTime, rlCount, rlRaced, cbVars, cbcVars, rbVars>>

NextRLConc ==
    \/ \E w \in Workers :
          \/ RLBegin(w)
          \/ RLZremrangebyscore(w)
          \/ RLZcard(w)
          \/ RLZadd(w)
          \/ RLExpire(w)
          \/ RLZrange(w)
          \/ RLRedisError(w)
    \/ Tick
SpecRLConc == InitRL /\ [][NextRLConc]_vars

\* the call of w has appended its timestamp (it is or will be answered allowed)
RLAdmitted(w) ==
    \/ rlPc[w] = "expire"
    \/ rlPc[w] = "idle" /\ rlResult[w] = "allowed"

\* C2: concurrent calls on one key are not interleaved: it never happens that
\* two concurrent calls both observe count < max_requests (the same count, with
\* one slot left) and are both admitted.
C2_NoDoubleAdmission ==
    \A w \in Workers : \A x \in rlRaced[w] : ~(RLAdmitted(w) /\ RLAdmitted(x))

\* the double admission leaves the window over its limit
C2_Overfull ==
    Cardinality(zset[SharedKey]) > cfgMax

\* ========================================================= CircuitBreaker
\* a cooldown test that wants more than timeout_seconds (> for >=)
_should_attempt_reset_strict(b, t) ==
    IF b.last_failure_time = None THEN TRUE
    ELSE t - b.last_failure_time > timeout_seconds

\* a cooldown test that never lets a probe through
_should_attempt_reset_never(b, t) == FALSE

\* _should_attempt_reset at clock value t
_should_attempt_reset(b, t) ==
    IF b.last_failure_time = None THEN TRUE
    ELSE t - b.last_failure_time >= timeout_seconds

\* a trip that forgets to clear the probing counter
_trip_keep(b) == [b EXCEPT !.state = OPEN]

_trip(b) == [b EXCEPT !.state = OPEN, !.half_open_success_count = 0]

\* a reset that forgets to clear failure_count
_reset_keep(b) ==
    [b EXCEPT !.state = CLOSED,
              !.half_open_success_count = 0, !.last_failure_time = None]

_reset(b) ==
    [b EXCEPT !.state = CLOSED, !.failure_count = 0,
              !.half_open_success_count = 0, !.last_failure_time = None]

\* a success handler that leaves failure_count alone while CLOSED
_on_success_keep(b) ==
    IF b.state = HALF_OPEN
    THEN LET b1 == [b EXCEPT !.half_open_success_count = @ + 1]
         IN  IF b1.half_open_success_count >= half_open_attempts
             THEN _reset(b1) ELSE b1
    ELSE b

\* a success handler that closes one success late (> for >=)
_on_success_late(b) ==
    IF b.state = HALF_OPEN
    THEN LET b1 == [b EXCEPT !.half_open_success_count = @ + 1]
         IN  IF b1.half_open_success_count > half_open_attempts
             THEN _reset(b1) ELSE b1
    ELSE IF b.state = CLOSED THEN [b EXCEPT !.failure_count = 0]
    ELSE b

_on_success(b) ==
    IF b.state = HALF_OPEN
    THEN LET b1 == [b EXCEPT !.half_open_success_count = @ + 1]
         IN  IF b1.half_open_success_count >= half_open_attempts
             THEN _reset(b1) ELSE b1
    ELSE IF b.state = CLOSED THEN [b EXCEPT !.failure_count = 0]
    ELSE b

\* a failure handler that trips only out of HALF_OPEN
_on_failure_notrip(b, t) ==
    LET b1 == [b EXCEPT !.failure_count = @ + 1, !.last_failure_time = t]
    IN  IF b1.state = HALF_OPEN THEN _trip(b1) ELSE b1

\* a failure handler that trips one failure late (> for >=)
_on_failure_late(b, t) ==
    LET b1 == [b EXCEPT !.failure_count = @ + 1, !.last_failure_time = t]
    IN  IF b1.state = HALF_OPEN THEN _trip(b1)
        ELSE IF b1.failure_count > failure_threshold THEN _trip(b1)
        ELSE b1

\* a failure handler that does not stamp last_failure_time
_on_failure_nostamp(b, t) ==
    LET b1 == [b EXCEPT !.failure_count = @ + 1]
    IN  IF b1.state = HALF_OPEN THEN _trip(b1)
        ELSE IF b1.failure_count >= failure_threshold THEN _trip(b1)
        ELSE b1

\* _on_failure at clock value t
_on_failure(b, t) ==
    LET b1 == [b EXCEPT !.failure_count = @ + 1, !.last_failure_time = t]
    IN  IF b1.state = HALF_OPEN THEN _trip(b1)
        ELSE IF b1.failure_count >= failure_threshold THEN _trip(b1)
        ELSE b1

\* call, up to the invocation of func: an OPEN breaker either moves to
\* HALF_OPEN or raises CircuitBreakerOpenError.
CallEnter ==
    /\ cbPc = "idle"
    /\ cbSeq' = 1 - cbSeq
    /\ IF cb.state = OPEN /\ ~_should_attempt_reset(cb, now)
       THEN /\ cbOutcome' = "CircuitBreakerOpenError"
            /\ cbInvoked' = FALSE
            /\ UNCHANGED <<cb, cbPc, probeStreak>>
       ELSE /\ cb' = IF cb.state = OPEN THEN [cb EXCEPT !.state = HALF_OPEN] ELSE cb
            /\ probeStreak' = IF cb.state = OPEN THEN 0 ELSE probeStreak
            /\ cbPc' = "running"
            /\ cbOutcome' = "pending"
            /\ cbInvoked' = TRUE
    /\ UNCHANGED <<now, rlVars, rlcVars, failure_threshold, timeout_seconds,
                   half_open_attempts, opRaised, cbBefore, failStreak, cbcVars, rbVars>>

\* call, from the outcome of func on: _on_success and return, or _on_failure
\* and re-raise. func raises an exception that `except Exception` catches.
CallReturn(raised) ==
    /\ cbPc = "running"
    /\ cbPc' = "idle"
    /\ opRaised' = raised
    /\ cbBefore' = cb
    /\ cb' = IF raised THEN _on_failure(cb, now) ELSE _on_success(cb)
    /\ cbOutcome' = IF raised THEN "raised" ELSE "returned"
    /\ failStreak' = IF raised THEN failStreak + 1 ELSE 0
    /\ probeStreak' = IF raised THEN 0
                      ELSE IF cb.state = HALF_OPEN THEN probeStreak + 1
                      ELSE probeStreak
    /\ UNCHANGED <<now, rlVars, rlcVars, failure_threshold, timeout_seconds,
                   half_open_attempts, cbInvoked, cbSeq, cbcVars, rbVars>>

RLIdle ==
    /\ zset = [k \in Keys |-> {}]
    /\ expiry = [k \in Keys |-> NoExpiry]
    /\ cfgMax = 1 /\ cfgWin = 1
    /\ last = NoDecision
    /\ afterDenial = FALSE
    /\ admitted = [k \in Keys |-> [t \in Times |-> 0]]
    /\ RLCInit

InitCB == now = 0 /\ RLIdle /\ CBInit /\ CBCInit /\ RBInit
NextCB ==
    \/ CallEnter
    \/ \E raised \in BOOLEAN : CallReturn(raised)
    \/ Tick
SpecCB == InitCB /\ [][NextCB]_vars

\* ---- steps of the sequential breaker, as seen from outside
\* a call was made in this step
CallMade == cbSeq' # cbSeq
\* func came back in this step
FuncDone == cbPc = "running" /\ cbPc' = "idle"

\* C3: failure_threshold consecutive failing calls (from CLOSED, count 0) leave
\* the breaker OPEN, and every later call made while now - last_failure_time <
\* timeout_seconds raises CircuitBreakerOpenError without invoking func.
C3_TripAndReject ==
    /\ [](cbPc = "idle" /\ cbOutcome = "raised" /\ failStreak >= failure_threshold
            => cb.state = OPEN)
    /\ [][CallMade /\ failStreak >= failure_threshold
            /\ cb.last_failure_time # None
            /\ now - cb.last_failure_time < timeout_seconds
          => /\ cbOutcome' = "CircuitBreakerOpenError"
             /\ ~cbInvoked'
             /\ cbPc' = "idle"
             /\ cb' = cb]_vars

C3_Witness ==
    /\ failure_threshold >= 2
    /\ failStreak = failure_threshold
    /\ cb.failure_count = failure_threshold
    /\ cb.state = OPEN
    /\ cbOutcome = "CircuitBreakerOpenError"
    /\ ~cbInvoked

\* C4: a call on an OPEN breaker whose cooldown has elapsed moves it to
\* HALF_OPEN and invokes func; the breaker becomes CLOSED, with failure_count 0,
\* after exactly half_open_attempts consecutive successes in HALF_OPEN, not fewer.
C4_ProbeAndClose ==
    /\ [][CallMade /\ cb.state = OPEN /\ cb.last_failure_time # None
            /\ now - cb.last_failure_time >= timeout_seconds
          => cb'.state = HALF_OPEN /\ cbPc' = "running" /\ cbInvoked']_vars
    /\ [][cb.state # CLOSED /\ cb'.state = CLOSED
          => /\ FuncDone /\ ~opRaised' /\ cb.state = HALF_OPEN
             /\ probeStreak' = half_open_attempts
             /\ cb'.failure_count = 0]_vars
    /\ [](cbPc = "idle" /\ cb.state = HALF_OPEN => probeStreak < half_open_attempts)

C4_Witness ==
    /\ half_open_attempts >= 2
    /\ cb.state = CLOSED
    /\ cbBefore.state = HALF_OPEN
    /\ cbBefore.failure_count > 0
    /\ probeStreak = half_open_attempts
    /\ cbOutcome = "returned"

\* C5: any single failing call in HALF_OPEN moves the breaker straight back to
\* OPEN, whatever was counted before; the cooldown restarts at that failure
\* and the next probing phase starts from zero successes again.
C5_ProbeFailureReopens ==
    /\ [][FuncDone /\ opRaised' /\ cb.state = HALF_OPEN
          => /\ cb'.state = OPEN
             /\ cb'.last_failure_time = now
             /\ cb'.half_open_success_count = 0
             /\ ~_should_attempt_reset(cb', now) ]_vars
    /\ [][cb.state = OPEN /\ cb'.state = HALF_OPEN
          => cb'.half_open_success_count = 0]_vars
    /\ [](cb.state = HALF_OPEN => cb.half_open_success_count = probeStreak)

C5_Witness ==
    /\ cbOutcome = "raised"
    /\ cbBefore.state = HALF_OPEN
    /\ cbBefore.half_open_success_count >= 1
    /\ cb.state = OPEN
    /\ cb.half_open_success_count = 0

\* C6: in every reachable state failure_count >= 0 and
\* half_open_success_count >= 0, half_open_success_count is 0 whenever the
\* state is not HALF_OPEN, and failure_count is 0 right after every transition
\* into CLOSED.
C6_CounterInvariants ==
    /\ [](/\ cb.failure_count >= 0
          /\ cb.half_open_success_count >= 0
          /\ (cb.state # HALF_OPEN => cb.half_open_success_count = 0))
    /\ [][cb.state # CLOSED /\ cb'.state = CLOSED => cb'.failure_count = 0]_vars

C6_Witness ==
    /\ cb.state = CLOSED
    /\ cb.failure_count = 0
    /\ cbBefore.state = HALF_OPEN
    /\ cbBefore.failure_count > 0
    /\ cbBefore.half_open_success_count = half_open_attempts - 1

\* C9: when func is invoked and raises, the breaker updates its state
\* (failure_count + 1, last_failure_time stamped, OPEN when due) and the caller
\* gets func's own exception, not CircuitBreakerOpenError and not a normal
\* return; CircuitBreakerOpenError is raised only when func was not invoked.
C9_FailurePropagates ==
    /\ [][FuncDone /\ opRaised'
          => /\ cb'.failure_count = cb.failure_count + 1
             /\ cb'.last_failure_time = now
             /\ (cb.state = HALF_OPEN \/ cb.failure_count + 1 >= failure_threshold
                    => cb'.state = OPEN)
             /\ cbOutcome' = "raised"]_vars
    /\ [](cbOutcome = "CircuitBreakerOpenError" => ~cbInvoked)
    /\ [](cbOutcome = "raised" => cbInvoked /\ opRaised)

C9_Witness ==
    /\ cbOutcome = "raised"
    /\ opRaised
    /\ cb.state = CLOSED
    /\ cb.failure_count >= 1
    /\ cb.last_failure_time = now

\* C23: while CLOSED a successful call resets failure_count to 0, so only
\* consecutive failures trip the breaker: a call moves it from CLOSED to OPEN
\* if and only if that call and the failure_threshold - 1 calls just before
\* it all failed; failures separated by a success never add up.
C23_ConsecutiveFailuresTrip ==
    /\ [][FuncDone /\ cb.state = CLOSED
          => /\ cb'.state = OPEN <=> opRaised' /\ failStreak' >= failure_threshold
             /\ ~opRaised' => cb'.state = CLOSED /\ cb'.failure_count = 0]_vars
    /\ [](cb.state = CLOSED => cb.failure_count = failStreak)

C23_Witness ==
    /\ failure_threshold = 2
    /\ cbOutcome = "returned"
    /\ cbBefore.state = CLOSED
    /\ cbBefore.failure_count = 1
    /\ cb.state = CLOSED
    /\ cb.failure_count = 0
    /\ failStreak = 0

\* C27: with failure_threshold >= 1, in every state reached by sequential
\* calls: CLOSED implies failure_count < failure_threshold, and OPEN implies
\* last_failure_time is set, so an OPEN breaker never probes through the
\* "no last failure" branch of the cooldown test.
C27_ClosedBelowThreshold ==
    /\ [](cb.state = CLOSED => cb.failure_count < failure_threshold)
    /\ [](cb.state = OPEN => cb.last_failure_time # None)
    /\ [][CallMade /\ cb.state = OPEN /\ cbInvoked'
          => cb.last_failure_time # None
             /\ now - cb.last_failure_time >= timeout_seconds]_vars

C27_Witness ==
    /\ cb.state = HALF_OPEN
    /\ cbPc = "running"
    /\ cb.last_failure_time # None
    /\ now - cb.last_failure_time >= timeout_seconds
    /\ cb.failure_count >= failure_threshold
    /\ failure_threshold = 2

\* C28: a call rejected with CircuitBreakerOpenError leaves state,
\* failure_count, last_failure_time and half_open_success_count unchanged;
\* rejected calls do not restart or extend the cooldown, so the breaker is
\* eligible for HALF_OPEN exactly timeout_seconds after the last real failure.
C28_RejectionChangesNothing ==
    /\ [][CallMade /\ cbOutcome' = "CircuitBreakerOpenError" => cb' = cb]_vars
    /\ [][cb'.last_failure_time # cb.last_failure_time
          => /\ FuncDone
             /\ opRaised' => cb'.last_failure_time = now]_vars
    /\ [][CallMade /\ cb.state = OPEN
          => (cbInvoked' <=> now - cb.last_failure_time >= timeout_seconds)]_vars

C28_Witness ==
    /\ cbOutcome = "CircuitBreakerOpenError"
    /\ cb.state = OPEN
    /\ timeout_seconds = 2
    /\ now = cb.last_failure_time + 1
    /\ cb.half_open_success_count = 0
    /\ ~cbInvoked

\* a probe let through exactly timeout_seconds after the failure
C28_WitnessProbe ==
    /\ cb.state = HALF_OPEN
    /\ cbPc = "running"
    /\ timeout_seconds = 2
    /\ now = cb.last_failure_time + 2

\* ---- sequential calls with a clock that never stops
\* Only the difference now - last_failure_time is ever read, so once the
\* clock value has reached MaxTime the clock goes on by moving the recorded
\* failure times one step back instead (a difference of MaxTime or more is
\* past every timeout_seconds).
Earlier(t) == IF t = None THEN None ELSE IF t > 0 THEN t - 1 ELSE 0
TickOn ==
    /\ IF now < MaxTime
       THEN now' = now + 1 /\ UNCHANGED <<cb, cbBefore>>
       ELSE /\ now' = now
            /\ cb' = [cb EXCEPT !.last_failure_time = Earlier(@)]
            /\ cbBefore' = [cbBefore EXCEPT !.last_failure_time = Earlier(@)]
    /\ UNCHANGED <<rlVars, rlcVars, failure_threshold, timeout_seconds,
                   half_open_attempts, cbPc, cbOutcome, cbInvoked, cbSeq, opRaised,
                   failStreak, probeStreak, cbcVars, rbVars>>

\* func comes back; failures are followed up to MaxFailures in a row
ReturnOn(raised) ==
    /\ raised => cb.failure_count < MaxFailures /\ failStreak < MaxFailures
    /\ CallReturn(raised)

NextCBLive ==
    \/ CallEnter
    \/ \E raised \in BOOLEAN : ReturnOn(raised)
    \/ TickOn
\* calls keep being made, every invocation comes back, the clock keeps going
SpecCBLive ==
    /\ InitCB /\ [][NextCBLive]_vars
    /\ WF_vars(CallEnter)
    /\ WF_vars(\E raised \in BOOLEAN : ReturnOn(raised))
    /\ WF_vars(TickOn)

\* C24: no breaker state is terminal: if calls keep being made, the clock
\* keeps advancing and from some point on func succeeds on every invocation,
\* the breaker eventually is CLOSED and stays CLOSED; an OPEN breaker does not
\* stay OPEN once timeout_seconds has elapsed and a call arrives.
C24_EventuallyClosed ==
    (<>[][~(FuncDone /\ opRaised')]_vars) => <>[](cb.state = CLOSED)

\* recovered after the clock value has stopped growing
C24_Witness ==
    /\ now = MaxTime
    /\ cb.state = CLOSED
    /\ cbBefore.state = HALF_OPEN
    /\ cbBefore.last_failure_time = 0
    /\ cbBefore.failure_count = MaxFailures
    /\ cbOutcome = "returned"

\* -------------------------------------------- CircuitBreaker, concurrent
\* Several threads run call on one breaker instance. The class holds no lock,
\* so the threads interleave between any two accesses to the instance's
\* attributes; `x += 1` is a load followed by a store.
TKeep ==
    UNCHANGED <<now, rlVars, rlcVars, failure_threshold, timeout_seconds,
                half_open_attempts, cbPc, cbOutcome, cbInvoked, cbSeq, opRaised,
                cbBefore, failStreak, probeStreak, rbVars>>
Goto(t, pc) == tPc' = [tPc EXCEPT ![t] = pc]

\* if self.state == CircuitState.OPEN
TEnter(t) ==
    /\ tPc[t] = "idle"
    /\ Goto(t, IF cb.state = OPEN THEN "should_attempt_reset" ELSE "func")
    /\ sinceReset' = FALSE
    /\ TKeep /\ UNCHANGED <<cb, tTmp, nReported, anySuccess>>

\* if self._should_attempt_reset(): ... else: raise CircuitBreakerOpenError
TShouldAttemptReset(t) ==
    /\ tPc[t] = "should_attempt_reset"
    /\ Goto(t, IF _should_attempt_reset(cb, now) THEN "set_half_open" ELSE "idle")
    /\ TKeep /\ UNCHANGED <<cb, tTmp, nReported, anySuccess, sinceReset>>

\* self.state = CircuitState.HALF_OPEN
TSetHalfOpen(t) ==
    /\ tPc[t] = "set_half_open"
    /\ cb' = [cb EXCEPT !.state = HALF_OPEN]
    /\ Goto(t, "func")
    /\ TKeep /\ UNCHANGED <<tTmp, nReported, anySuccess, sinceReset>>

\* result = func(*args, **kwargs): returns, or raises
TFunc(t, raised) ==
    /\ tPc[t] = "func"
    /\ raised => nReported < MaxFailures /\ cb.failure_count < MaxFailures
    /\ Goto(t, IF raised THEN "fail_load" ELSE "succ_state")
    /\ anySuccess' = (anySuccess \/ ~raised)
    /\ nReported' = IF anySuccess' THEN 0 ELSE nReported + 1
    /\ TKeep /\ UNCHANGED <<cb, tTmp, sinceReset>>

\* _on_success: if self.state == HALF_OPEN ... elif self.state == CLOSED
TSuccState(t) ==
    /\ tPc[t] = "succ_state"
    /\ Goto(t, IF cb.state = HALF_OPEN THEN "succ_load"
               ELSE IF cb.state = CLOSED THEN "succ_zero" ELSE "idle")
    /\ TKeep /\ UNCHANGED <<cb, tTmp, nReported, anySuccess, sinceReset>>

\* self.half_open_success_count += 1 (load)
TSuccLoad(t) ==
    /\ tPc[t] = "succ_load"
    /\ tTmp' = [tTmp EXCEPT ![t] = cb.half_open_success_count]
    /\ Goto(t, "succ_store")
    /\ TKeep /\ UNCHANGED <<cb, nReported, anySuccess, sinceReset>>

\* self.half_open_success_count += 1 (store)
TSuccStore(t) ==
    /\ tPc[t] = "succ_store"
    /\ cb' = [cb EXCEPT !.half_open_success_count = tTmp[t] + 1]
    /\ Goto(t, "succ_cmp")
    /\ TKeep /\ UNCHANGED <<tTmp, nReported, anySuccess, sinceReset>>

\* if self.half_open_success_count >= self.half_open_attempts: self._reset()
TSuccCmp(t) ==
    /\ tPc[t] = "succ_cmp"
    /\ Goto(t, IF cb.half_open_success_count >= half_open_attempts
               THEN "reset_state" ELSE "idle")
    /\ TKeep /\ UNCHANGED <<cb, tTmp, nReported, anySuccess, sinceReset>>

\* _on_success in CLOSED: self.failure_count = 0
TSuccZero(t) ==
    /\ tPc[t] = "succ_zero"
    /\ cb' = [cb EXCEPT !.failure_count = 0]
    /\ Goto(t, "idle")
    /\ TKeep /\ UNCHANGED <<tTmp, nReported, anySuccess, sinceReset>>

\* _reset, one assignment at a time
TResetState(t) ==
    /\ tPc[t] = "reset_state"
    /\ cb' = [cb EXCEPT !.state = CLOSED]
    /\ Goto(t, "reset_failure_count")
    /\ TKeep /\ UNCHANGED <<tTmp, nReported, anySuccess, sinceReset>>

TResetFailureCount(t) ==
    /\ tPc[t] = "reset_failure_count"
    /\ cb' = [cb EXCEPT !.failure_count = 0]
    /\ Goto(t, "reset_success_count")
    /\ TKeep /\ UNCHANGED <<tTmp, nReported, anySuccess, sinceReset>>

TResetSuccessCount(t) ==
    /\ tPc[t] = "reset_success_count"
    /\ cb' = [cb EXCEPT !.half_open_success_count = 0]
    /\ Goto(t, "reset_last_failure")
    /\ TKeep /\ UNCHANGED <<tTmp, nReported, anySuccess, sinceReset>>

TResetLastFailure(t) ==
    /\ tPc[t] = "reset_last_failure"
    /\ cb' = [cb EXCEPT !.last_failure_time = None]
    /\ Goto(t, "idle")
    /\ sinceReset' = TRUE
    /\ TKeep /\ UNCHANGED <<tTmp, nReported, anySuccess>>

\* _on_failure: self.failure_count += 1 (load)
TFailLoad(t) ==
    /\ tPc[t] = "fail_load"
    /\ tTmp' = [tTmp EXCEPT ![t] = cb.failure_count]
    /\ Goto(t, "fail_store")
    /\ TKeep /\ UNCHANGED <<cb, nReported, anySuccess, sinceReset>>

\* self.failure_count += 1 (store)
TFailStore(t) ==
    /\ tPc[t] = "fail_store"
    /\ cb' = [cb EXCEPT !.failure_count = tTmp[t] + 1]
    /\ Goto(t, "fail_stamp")
    /\ TKeep /\ UNCHANGED <<tTmp, nReported, anySuccess, sinceReset>>

\* self.last_failure_time = datetime.now()
TFailStamp(t) ==
    /\ tPc[t] = "fail_stamp"
    /\ cb' = [cb EXCEPT !.last_failure_time = now]
    /\ Goto(t, "fail_state")
    /\ TKeep /\ UNCHANGED <<tTmp, nReported, anySuccess, sinceReset>>

\* if self.state == CircuitState.HALF_OPEN: self._trip()
TFailState(t) ==
    /\ tPc[t] = "fail_state"
    /\ Goto(t, IF cb.state = HALF_OPEN THEN "trip_state" ELSE "fail_cmp")
    /\ TKeep /\ UNCHANGED <<cb, tTmp, nReported, anySuccess, sinceReset>>

\* elif self.failure_count >= self.failure_threshold: self._trip()
TFailCmp(t) ==
    /\ tPc[t] = "fail_cmp"
    /\ Goto(t, IF cb.failure_count >= failure_threshold THEN "trip_state" ELSE "idle")
    /\ TKeep /\ UNCHANGED <<cb, tTmp, nReported, anySuccess, sinceReset>>

\* _trip, one assignment at a time
TTripState(t) ==
    /\ tPc[t] = "trip_state"
    /\ cb' = [cb EXCEPT !.state = OPEN]
    /\ Goto(t, "trip_success_count")
    /\ TKeep /\ UNCHANGED <<tTmp, nReported, anySuccess, sinceReset>>

TTripSuccessCount(t) ==
    /\ tPc[t] = "trip_success_count"
    /\ cb' = [cb EXCEPT !.half_open_success_count = 0]
    /\ Goto(t, "idle")
    /\ TKeep /\ UNCHANGED <<tTmp, nReported, anySuccess, sinceReset>>

NextCBConc ==
    \/ \E t \in Threads :
          \/ TEnter(t)
          \/ TShouldAttemptReset(t)
          \/ TSetHalfOpen(t)
          \/ \E raised \in BOOLEAN : TFunc(t, raised)
          \/ TSuccState(t)
          \/ TSuccLoad(t)
          \/ TSuccStore(t)
          \/ TSuccCmp(t)
          \/ TSuccZero(t)
          \/ TResetState(t)
          \/ TResetFailureCount(t)
          \/ TResetSuccessCount(t)
          \/ TResetLastFailure(t)
          \/ TFailLoad(t)
          \/ TFailStore(t)
          \/ TFailStamp(t)
          \/ TFailState(t)
          \/ TFailCmp(t)
          \/ TTripState(t)
          \/ TTripSuccessCount(t)
    \/ Tick
SpecCBConc == InitCB /\ [][NextCBConc]_vars

AllIdle == \A t \in Threads : tPc[t] = "idle"

\* C7: with several threads in call on one instance, a race between a
\* succeeding and a failing call never leaves the breaker (all calls finished)
\* CLOSED or OPEN with half_open_success_count nonzero, nor CLOSED with
\* failure_count nonzero right after the reset.
C7_ConsistentAtRest ==
    AllIdle =>
        /\ (cb.state # HALF_OPEN => cb.half_open_success_count = 0)
        /\ (sinceReset /\ cb.state = CLOSED => cb.failure_count = 0)

\* C8: with several threads reporting failures through call on one instance and
\* no success in between, no increment is lost: once all calls have finished
\* failure_count equals the number of failures reported, and the breaker is OPEN
\* when that number has reached failure_threshold.
C8_NoLostFailure ==
    AllIdle /\ ~anySuccess =>
        /\ cb.failure_count = nReported
        /\ (nReported >= failure_threshold => cb.state = OPEN)

\* ============================================================ RBACManager
\* The clock of this part counts hours (expires_in_hours is in hours).
MaxHours == 2
UserIds == {"user_123", "viewer_user"}

\* HS256 over the encoded claims: only the same key over the same claims
\* gives the same signature
Sign(claims, key) == <<key, claims>>

\* jwt.encode(payload, key, algorithm='HS256'); datetimes become integer
\* timestamps, the list of permission values a JSON array
jwt_encode(payload, key) ==
    [claims |-> payload, sig |-> Sign(payload, key), wellformed |-> TRUE]

\* jwt.decode(token, key, algorithms=['HS256']) at clock value t: the claims,
\* or ExpiredSignatureError, or another InvalidTokenError
jwt_decode(token, key, t) ==
    IF ~token.wellformed THEN [kind |-> "invalid", payload |-> NoPayload, at |-> t]
    ELSE IF token.sig # Sign(token.claims, key)
    THEN [kind |-> "invalid", payload |-> NoPayload, at |-> t]
    ELSE IF token.claims.exp <= t
    THEN [kind |-> "expired", payload |-> NoPayload, at |-> t]
    ELSE [kind |-> "payload", payload |-> token.claims, at |-> t]

\* a create_token that embeds the ADMIN permissions whatever the role
create_token_admin(user_id, role, expires_in_hours, t) ==
    jwt_encode([user_id |-> user_id,
                role |-> RoleValue(role),
                permissions |-> [i \in 1..Len(role_permissions("ADMIN")) |->
                                    PermissionValue(role_permissions("ADMIN")[i])],
                exp |-> t + expires_in_hours,
                iat |-> t], jwt_secret)

\* create_token at clock value t
create_token(user_id, role, expires_in_hours, t) ==
    jwt_encode([user_id |-> user_id,
                role |-> RoleValue(role),
                permissions |-> [i \in 1..Len(role_permissions(role)) |->
                                    PermissionValue(role_permissions(role)[i])],
                exp |-> t + expires_in_hours,
                iat |-> t], jwt_secret)

\* a verify_token whose handlers are in the other order: ExpiredSignatureError
\* is an InvalidTokenError, so every failure is reported as invalid
verify_token_collapsed(token, t) ==
    LET d == jwt_decode(token, jwt_secret, t)
    IN IF d.kind = "expired" THEN [d EXCEPT !.kind = "invalid"] ELSE d

\* verify_token at clock value t: kind "payload" is the returned dict, kind
\* "expired" is ValueError("Token has expired"), kind "invalid" is
\* ValueError("Invalid token: ...")
verify_token(token, t) == jwt_decode(token, jwt_secret, t)

\* Permission(p): the member whose value is p, or ValueError
UnknownValue == "delete_repo"
KnownValue(v) == \E p \in Permission : PermissionValue(p) = v
AdminValues ==
    [i \in 1..Len(role_permissions("ADMIN")) |-> PermissionValue(role_permissions("ADMIN")[i])]

\* a has_permission that looks the role claim up in the manager's table
has_permission_by_table(token, required_permission, t) ==
    LET d == verify_token(token, t)
    IN [raised |-> FALSE,
        value |-> /\ d.kind = "payload"
                  /\ \E r \in Role :
                        /\ RoleValue(r) = d.payload.role
                        /\ \E i \in 1..Len(role_permissions(r)) :
                              role_permissions(r)[i] = required_permission]

\* a has_permission that only verifies the token and skips the membership test
has_permission_any(token, required_permission, t) ==
    [raised |-> FALSE, value |-> verify_token(token, t).kind = "payload"]

\* a has_permission without the except clause: the ValueError of verify_token
\* or of Permission(p) propagates
has_permission_raising(token, required_permission, t) ==
    LET d == verify_token(token, t)
        perms == d.payload.permissions
        bad == d.kind # "payload" \/ \E i \in 1..Len(perms) : ~KnownValue(perms[i])
    IN [raised |-> bad,
        value |-> ~bad /\ \E i \in 1..Len(perms) :
                              perms[i] = PermissionValue(required_permission)]

\* has_permission at clock value t. ValueError, from verify_token or from
\* Permission(p) on a name that is no Permission value, is caught and gives
\* False; nothing else raises on these inputs.
has_permission(token, required_permission, t) ==
    LET d == verify_token(token, t)
        perms == d.payload.permissions
    IN IF d.kind # "payload" THEN [raised |-> FALSE, value |-> FALSE]
       ELSE IF \E i \in 1..Len(perms) : ~KnownValue(perms[i])
       THEN [raised |-> FALSE, value |-> FALSE]
       ELSE [raised |-> FALSE,
             value |-> \E i \in 1..Len(perms) :
                          perms[i] = PermissionValue(required_permission)]

CreateToken(u, r, h) ==
    /\ tok' = create_token(u, r, h, now)
    /\ req' = [user_id |-> u, role |-> r, expires_in_hours |-> h]
    /\ genuine' = TRUE
    /\ vres' = NoResult /\ hres' = NoHas /\ wres' = NoWrap /\ sres' = NoResp
    /\ UNCHANGED <<now, rlVars, rlcVars, cbVars, cbcVars, opState, table, reqChecks>>

\* what a client can present instead of an issued token: the claims edited
\* under the old signature, a token signed with another key, garbage, or
\* nothing at all
Tamper(how) ==
    /\ genuine
    /\ tok' = CASE how = "edit" ->
                     [tok EXCEPT !.claims.role = "admin",
                                 !.claims.permissions = AdminValues,
                                 !.claims.exp = MaxTime + MaxHours + 1]
                [] how = "forge" -> jwt_encode(tok.claims, OtherKey)
                [] how = "garbage" -> Malformed
                [] how = "none" -> NoneToken
    /\ genuine' = FALSE
    /\ vres' = NoResult /\ hres' = NoHas /\ wres' = NoWrap /\ sres' = NoResp
    /\ UNCHANGED <<now, rlVars, rlcVars, cbVars, cbcVars, req, opState, table, reqChecks>>

\* AuthHandler.encode_token: the service's other issuer signs {exp, iat, sub}
\* with the same secret and algorithm; the claims carry no permissions
encode_token(user_id, t) ==
    jwt_encode([user_id |-> "", role |-> "", permissions |-> <<>>,
                exp |-> t + 1, iat |-> t], jwt_secret)

\* a validly signed token that was not made by this create_token: the one of
\* encode_token, or one whose permission list holds a name that is not a
\* Permission value
IssueOther(u, which) ==
    /\ tok' = IF which = "encode_token" THEN encode_token(u, now)
              ELSE jwt_encode([user_id |-> u, role |-> "admin",
                               permissions |-> <<"view_reports", UnknownValue>>,
                               exp |-> now + 1, iat |-> now], jwt_secret)
    /\ req' = [user_id |-> u, role |-> "VIEWER", expires_in_hours |-> 1]
    /\ genuine' = FALSE
    /\ vres' = NoResult /\ hres' = NoHas /\ wres' = NoWrap /\ sres' = NoResp
    /\ UNCHANGED <<now, rlVars, rlcVars, cbVars, cbcVars, opState, table, reqChecks>>

VerifyToken ==
    /\ vres' = verify_token(tok, now)
    /\ hres' = NoHas /\ wres' = NoWrap /\ sres' = NoResp
    /\ UNCHANGED <<now, rlVars, rlcVars, cbVars, cbcVars, tok, req, genuine, opState, table, reqChecks>>

HasPermission(p) ==
    /\ LET h == has_permission(tok, p, now)
       IN hres' = [kind |-> IF h.raised THEN "raised" ELSE "returned",
                   perm |-> p, value |-> h.value, at |-> now]
    /\ vres' = NoResult /\ wres' = NoWrap /\ sres' = NoResp
    /\ UNCHANGED <<now, rlVars, rlcVars, cbVars, cbcVars, tok, req, genuine, opState, table, reqChecks>>

\* the operation a require_permission decorator wraps: it changes opState
func(st) == 1 - st

\* a wrapper that runs the operation first and tests the permission afterwards
wrapper_late(permission, supplied, token, st, t) ==
    LET tk == IF supplied THEN token ELSE NoneToken
        h == has_permission(tk, permission, t)
    IN IF h.raised THEN [kind |-> "raised", opState |-> func(st)]
       ELSE IF ~h.value THEN [kind |-> "PermissionError", opState |-> func(st)]
       ELSE [kind |-> "returned", opState |-> func(st)]

\* the wrapper made by require_permission(permission), called with or without
\* the token keyword; _get_token_from_context() is None
wrapper(permission, supplied, token, st, t) ==
    LET tk == IF supplied THEN token ELSE NoneToken
        h == has_permission(tk, permission, t)
    IN IF h.raised THEN [kind |-> "raised", opState |-> st]
       ELSE IF ~h.value THEN [kind |-> "PermissionError", opState |-> st]
       ELSE [kind |-> "returned", opState |-> func(st)]

RequirePermission(p, supplied) ==
    /\ LET out == wrapper(p, supplied, tok, opState, now)
       IN /\ wres' = [kind |-> out.kind, perm |-> p, supplied |-> supplied, at |-> now]
          /\ opState' = out.opState
    /\ vres' = NoResult /\ hres' = NoHas /\ sres' = NoResp
    /\ UNCHANGED <<now, rlVars, rlcVars, cbVars, cbcVars, tok, req, genuine, table, reqChecks>>

\* ---- the HTTP dependencies of the API server
HTTP_200 == 200
HTTP_401_UNAUTHORIZED == 401
HTTP_403_FORBIDDEN == 403
HTTP_500 == 500

\* str(e) of the ValueError of verify_token
ErrorDetail(kind) ==
    IF kind = "expired" THEN "Token has expired" ELSE "Invalid token"

\* server.verify_token on a bearer token at clock value t
server_verify_token(token, t) ==
    LET d == verify_token(token, t)
    IN IF d.kind = "payload"
       THEN [status |-> HTTP_200, detail |-> "", named |-> ""]
       ELSE [status |-> HTTP_401_UNAUTHORIZED, detail |-> ErrorDetail(d.kind), named |-> ""]

\* the permission_checker of server.require_permission(permission):
\* has_permission at clock value t, then verify_token at t2 >= t, whose
\* ValueError no handler of the dependency catches (error middleware: 500)
permission_checker(permission, token, t, t2) ==
    IF ~has_permission(token, permission, t).value
    THEN [status |-> HTTP_403_FORBIDDEN, detail |-> "Permission required",
          named |-> PermissionValue(permission)]
    ELSE IF verify_token(token, t2).kind = "payload"
    THEN [status |-> HTTP_200, detail |-> "", named |-> ""]
    ELSE [status |-> HTTP_500, detail |-> ErrorDetail(verify_token(token, t2).kind),
          named |-> ""]

ServerVerifyToken ==
    /\ LET resp == server_verify_token(tok, now)
       IN sres' = [kind |-> "verify_token", perm |-> "", status |-> resp.status,
                   detail |-> resp.detail, named |-> resp.named, at |-> now]
    /\ vres' = NoResult /\ hres' = NoHas /\ wres' = NoWrap
    /\ UNCHANGED <<now, rlVars, rlcVars, cbVars, cbcVars, tok, req, genuine, opState, table, reqChecks>>

\* late: the clock moves on between has_permission and verify_token
ServerRequirePermission(p, late) ==
    /\ late => now < MaxTime
    /\ now' = IF late THEN now + 1 ELSE now
    /\ LET resp == permission_checker(p, tok, now, now')
       IN sres' = [kind |-> "require_permission", perm |-> p, status |-> resp.status,
                   detail |-> resp.detail, named |-> resp.named, at |-> now]
    /\ vres' = NoResult /\ hres' = NoHas /\ wres' = NoWrap
    /\ UNCHANGED <<rlVars, rlcVars, cbVars, cbcVars, tok, req, genuine, opState, table, reqChecks>>

\* ---- the role table changed while tokens are in circulation
\* self.role_permissions[r] = perms: a role revoked to nothing or raised to
\* everything. One change of the table is followed.
SetRolePermissions(r, perms) ==
    /\ table = InitialTable
    /\ perms # table[r]
    /\ table' = [table EXCEPT ![r] = perms]
    /\ vres' = NoResult /\ hres' = NoHas /\ wres' = NoWrap /\ sres' = NoResp
    /\ UNCHANGED <<now, rlVars, rlcVars, cbVars, cbcVars, tok, req, genuine, opState, reqChecks>>

InitRBAC == now = 0 /\ RLIdle /\ CBIdle /\ RBInit
NextRBAC ==
    \/ \E u \in UserIds, r \in Role, h \in 0..MaxHours : CreateToken(u, r, h)
    \/ \E how \in {"edit", "forge", "garbage", "none"} : Tamper(how)
    \/ \E u \in UserIds, which \in {"encode_token", "unknown"} : IssueOther(u, which)
    \/ VerifyToken
    \/ \E p \in Permission : HasPermission(p)
    \/ Tick
SpecRBAC == InitRBAC /\ [][NextRBAC]_vars

\* a manager whose table is edited between issuance and the permission test
InitRoles == InitRBAC
NextRoles ==
    \/ \E u \in UserIds, r \in Role, h \in 0..MaxHours : CreateToken(u, r, h)
    \/ \E how \in {"edit", "forge", "garbage", "none"} : Tamper(how)
    \/ \E u \in UserIds, which \in {"encode_token", "unknown"} : IssueOther(u, which)
    \/ \E r \in Role, perms \in {<<>>, InitialTable["ADMIN"]} : SetRolePermissions(r, perms)
    \/ \E p \in Permission : HasPermission(p)
    \/ Tick
SpecRoles == InitRoles /\ [][NextRoles]_vars

\* operations behind a require_permission decorator, called with the tokens
\* of the manager
InitGuard == InitRBAC
NextGuard ==
    \/ \E u \in UserIds, r \in Role, h \in 0..MaxHours : CreateToken(u, r, h)
    \/ \E how \in {"edit", "forge", "garbage", "none"} : Tamper(how)
    \/ \E u \in UserIds, which \in {"encode_token", "unknown"} : IssueOther(u, which)
    \/ \E p \in Permission, supplied \in BOOLEAN : RequirePermission(p, supplied)
    \/ Tick
SpecGuard == InitGuard /\ [][NextGuard]_vars

\* the API server's protected dependencies on the tokens of the manager
InitServer == InitRBAC
NextServer ==
    \/ \E u \in UserIds, r \in Role, h \in 0..MaxHours : CreateToken(u, r, h)
    \/ \E how \in {"edit", "forge", "garbage"} : Tamper(how)
    \/ \E u \in UserIds, which \in {"encode_token", "unknown"} : IssueOther(u, which)
    \/ ServerVerifyToken
    \/ \E p \in Permission, late \in BOOLEAN : ServerRequirePermission(p, late)
    \/ Tick
SpecServer == InitServer /\ [][NextServer]_vars

\* C10: verify_token(create_token(user_id, role)) with a positive expiry
\* returns a payload with the given user_id, the role's value, and exactly the
\* permissions of the role table's entry for that role.
C10_TokenRoundTrip ==
    genuine /\ vres.kind # "none" /\ req.expires_in_hours > 0
            /\ vres.at < tok.claims.iat + req.expires_in_hours
    => /\ vres.kind = "payload"
       /\ vres.payload.user_id = req.user_id
       /\ vres.payload.role = RoleValue(req.role)
       /\ Len(vres.payload.permissions) = Len(role_permissions(req.role))
       /\ \A i \in 1..Len(role_permissions(req.role)) :
             vres.payload.permissions[i] = PermissionValue(role_permissions(req.role)[i])

C10_Witness ==
    /\ genuine
    /\ vres.kind = "payload"
    /\ req.role = "DEVELOPER"
    /\ req.expires_in_hours = 2
    /\ vres.at = tok.claims.iat + 1
    /\ Len(vres.payload.permissions) = 3

ValidlySigned(token) == token.wellformed /\ token.sig = Sign(token.claims, jwt_secret)

\* C11: a token created with expires_in_hours = 0 and verified immediately is
\* rejected as expired ("Token has expired"); a corrupted or malformed token
\* is rejected as invalid ("Invalid token"); a validly signed expired token is
\* never reported invalid and an invalid token is never reported expired.
C11_ExpiredVersusInvalid ==
    vres.kind # "none" =>
        /\ (genuine /\ req.expires_in_hours = 0 /\ vres.at = tok.claims.iat
                => vres.kind = "expired")
        /\ (~ValidlySigned(tok) => vres.kind = "invalid")
        /\ (ValidlySigned(tok) /\ tok.claims.exp <= vres.at => vres.kind = "expired")
        /\ (vres.kind = "expired" => ValidlySigned(tok))

C11_Witness ==
    /\ genuine
    /\ req.expires_in_hours = 0
    /\ vres.kind = "expired"
    /\ vres.at = tok.claims.iat

\* an invalid token whose expiry has passed is still reported invalid
C11_WitnessInvalid ==
    /\ ~genuine
    /\ tok.wellformed
    /\ tok.claims.exp <= vres.at
    /\ vres.kind = "invalid"

Range(seq) == {seq[i] : i \in 1..Len(seq)}

\* the role table as the specification lists it
RoleTable(r) ==
    CASE r = "ADMIN" -> {"CONFIGURE_BOT", "VIEW_REPORTS", "APPROVE_REVIEWS",
                         "MANAGE_RULES", "VIEW_ANALYTICS"}
      [] r = "DEVELOPER" -> {"VIEW_REPORTS", "APPROVE_REVIEWS", "VIEW_ANALYTICS"}
      [] r = "REVIEWER" -> {"VIEW_REPORTS", "APPROVE_REVIEWS"}
      [] r = "VIEWER" -> {"VIEW_REPORTS"}

\* C12: for every role r and permission p, has_permission(create_token(u, r), p)
\* on an unexpired token is true exactly when p is in the role table entry of
\* r, and ADMIN's entry is a superset of every other role's entry.
C12_PermissionTable ==
    /\ \A r \in Role : Range(role_permissions(r)) \subseteq Range(role_permissions("ADMIN"))
    /\ genuine /\ hres.kind # "none" /\ hres.at < tok.claims.exp
       => /\ hres.kind = "returned"
          /\ hres.value <=> hres.perm \in RoleTable(req.role)

C12_Witness ==
    /\ genuine
    /\ hres.kind = "returned"
    /\ hres.at < tok.claims.exp
    /\ req.role = "REVIEWER"
    /\ hres.perm = "APPROVE_REVIEWS"
    /\ hres.value

C12_WitnessDenied ==
    /\ genuine
    /\ hres.kind = "returned"
    /\ hres.at < tok.claims.exp
    /\ req.role = "DEVELOPER"
    /\ hres.perm = "MANAGE_RULES"
    /\ ~hres.value

HoldsUnknown(token) == \E v \in Range(token.claims.permissions) : ~KnownValue(v)

C13_WitnessNone ==
    /\ hres.kind = "returned"
    /\ tok = NoneToken
    /\ ~hres.value

C13_WitnessExpired ==
    /\ hres.kind = "returned"
    /\ genuine
    /\ req.role = "ADMIN"
    /\ tok.claims.exp <= hres.at
    /\ ~hres.value

WrapperCalled == wres'.kind # "none" /\ (wres' # wres \/ opState' # opState)

\* C14: an operation wrapped by require_permission(p) runs if and only if the
\* token given as the token keyword passes has_permission(token, p); otherwise
\* (permission missing, token invalid or expired, no token) PermissionError is
\* raised and the operation has had no effect.
C14_GuardedOperation ==
    [][/\ WrapperCalled =>
            LET tk == IF wres'.supplied THEN tok ELSE NoneToken
                ok == has_permission(tk, wres'.perm, now).value
            IN /\ (opState' # opState) <=> ok
               /\ (wres'.kind = "returned") <=> ok
               /\ (wres'.kind = "PermissionError") <=> ~ok
       /\ opState' # opState => wres'.kind = "returned"]_vars

C14_Witness ==
    /\ wres.kind = "PermissionError"
    /\ wres.supplied
    /\ genuine
    /\ req.role = "VIEWER"
    /\ wres.at < tok.claims.exp
    /\ wres.perm = "CONFIGURE_BOT"

C14_WitnessRan ==
    /\ wres.kind = "returned"
    /\ genuine
    /\ req.role = "ADMIN"
    /\ wres.perm = "CONFIGURE_BOT"
    /\ opState = 1

C14_WitnessNoToken ==
    /\ wres.kind = "PermissionError"
    /\ ~wres.supplied
    /\ genuine
    /\ req.role = "ADMIN"
    /\ wres.at < tok.claims.exp

\* C20: for server.verify_token and server.require_permission(p), a token that
\* fails verification (invalid or expired) gets a 401 response, and a 403
\* response is given only to a token that verifies but lacks p, its detail
\* naming p.
C20_Http401Versus403 ==
    sres.kind # "none" =>
        /\ (verify_token(tok, sres.at).kind # "payload" => sres.status = 401)
        /\ (sres.status = 403 =>
               /\ verify_token(tok, sres.at).kind = "payload"
               /\ ~has_permission(tok, sres.perm, sres.at).value
               /\ sres.named = PermissionValue(sres.perm))

\* what the dependencies do give: 401 from verify_token for every failing
\* token, 403 naming p from require_permission(p) whenever has_permission is
\* false
C20_AsImplemented ==
    /\ sres.kind = "verify_token" =>
          (sres.status = 401 <=> verify_token(tok, sres.at).kind # "payload")
    /\ sres.kind = "require_permission" =>
          /\ sres.status # 401
          /\ (sres.status = 403 <=> ~has_permission(tok, sres.perm, sres.at).value)
          /\ (sres.status = 403 => sres.named = PermissionValue(sres.perm))

C20_Witness403OnInvalid ==
    /\ sres.kind = "require_permission"
    /\ sres.status = 403
    /\ tok = Malformed

\* ---- decisions of check_rate_limit, one call at a time
\* a step in which check_rate_limit was called; its key is last'.key
RLChecked ==
    /\ last'.key \in Keys
    /\ last' # last \/ zset' # zset \/ expiry' # expiry \/ afterDenial' # afterDenial
\* the entries of key k the store still holds inside the window at this moment
Surviving(k) == {m \in Live(zset[k], expiry[k], now) : m > now - cfgWin}

\* C15: if any store command inside check_rate_limit fails, the call does not
\* raise and returns allowed = true with the error marker; a decision without
\* the marker is returned only when every store command of the call succeeded.
C15_FailOpen ==
    last.key \in Keys =>
        /\ ~last.raised
        /\ last.failAt # 0 => last.allowed /\ last.error
        /\ ~last.error => last.failAt = 0

C15_Witness ==
    /\ last.failAt = 4
    /\ last.allowed
    /\ last.error
    /\ last.at \in zset[last.key]

\* ---- checks whose window_seconds is an argument of each call
\* window_seconds is a parameter of check_rate_limit and of its three
\* wrappers; cfgWin here is the value the latest call passed.
CheckWithWindow(k, window_seconds, failAt) ==
    LET r == check_rate_limit(zset[k], expiry[k], k, cfgMax, window_seconds, now, failAt)
    IN  /\ failAt = 4 => r.decision.error
        /\ zset' = [zset EXCEPT ![k] = r.zset]
        /\ expiry' = [expiry EXCEPT ![k] = r.expiry]
        /\ last' = [r.decision EXCEPT !.failAt = failAt]
        /\ afterDenial' = (last.key = k /\ ~last.allowed /\ ~last.error /\ last.at < now)
        /\ cfgWin' = window_seconds
        /\ UNCHANGED <<now, cfgMax, admitted, rlcVars, cbVars, cbcVars, rbVars>>

NextRLWin ==
    \/ \E k \in Keys, w \in 1..MaxWindow, failAt \in 0..4 : CheckWithWindow(k, w, failAt)
    \/ Tick
SpecRLWin == InitRL /\ [][NextRLWin]_vars

\* the store has expired key k and its entries have not been looked at since
Expired(k) == zset[k] # {} /\ expiry[k] # NoExpiry /\ expiry[k] <= now

\* C29: the store's own expiry of a rate-limit key never discards a timestamp
\* that a later check on that key would still count inside its trailing
\* window, whatever window_seconds successive checks pass: when a check finds
\* its key expired, every timestamp the key held is at or before the start of
\* that check's window.
C29_ExpiryLosesNothing ==
    [][\A k \in Keys, w \in 1..MaxWindow, failAt \in 0..4 :
          CheckWithWindow(k, w, failAt) /\ Expired(k)
              => \A m \in zset[k] : m <= now - w]_vars

\* the store has expired a key whose only timestamp, recorded by a call that
\* met no store failure, is still inside the window of a check passing
\* MaxWindow
C29_Witness ==
    /\ last.key \in Keys
    /\ last.allowed /\ ~last.error
    /\ Expired(last.key)
    /\ zset[last.key] = {last.at}
    /\ last.at > now - MaxWindow

\* C30: when check_rate_limit returns the fail-open decision (error marker
\* present) the request it answers has not been recorded: whichever store
\* operation fails (prune, count, add, set-expiry), the call has put no
\* timestamp into the key's window and no key is left without an expiry.
C30_FailOpenRecordsNothing ==
    [][RLChecked /\ last'.error
          => /\ zset'[last'.key] \subseteq zset[last'.key]
             /\ \A k \in Keys : zset'[k] # {} => expiry'[k] # NoExpiry]_vars

\* set-expiry failed on a key the call has just created
C30_Witness ==
    /\ last.error
    /\ last.failAt = 4
    /\ zset[last.key] = {last.at}
    /\ expiry[last.key] = NoExpiry

\* C16: a call that returns allowed = false adds no timestamp and leaves the
\* key's expiry alone; a call that returns allowed = true without the error
\* marker has the current timestamp in the key's window and the key's expiry
\* at window_seconds from now; the other keys are untouched either way.
C16_FrameEffect ==
    [][RLChecked /\ ~last'.error =>
          LET k == last'.key
          IN /\ \A j \in Keys \ {k} : zset'[j] = zset[j] /\ expiry'[j] = expiry[j]
             /\ ~last'.allowed =>
                   /\ zset'[k] \subseteq zset[k]
                   /\ expiry'[k] = expiry[k]
             /\ last'.allowed =>
                   /\ now \in zset'[k]
                   /\ zset'[k] \ {now} \subseteq zset[k]
                   /\ expiry'[k] = now + cfgWin]_vars

C16_Witness ==
    /\ last.key = "user_limit:u1"
    /\ ~last.allowed /\ ~last.error
    /\ last.at = now
    /\ now \notin zset["user_limit:u1"]
    /\ zset["ip_limit:h1"] # {}
    /\ expiry["user_limit:u1"] < now + cfgWin

C16_WitnessAllow ==
    /\ last.key = "ip_limit:h1"
    /\ last.allowed /\ ~last.error
    /\ last.at = now /\ now > 0
    /\ zset["ip_limit:h1"] = {now}
    /\ zset["user_limit:u1"] # {}

\* C17: an identifier denied at T is admitted again by the next check on it
\* (no check in between) at any time t with t - window_seconds at or past
\* every recorded timestamp.
C17_EligibleAgain ==
    [][/\ last.key \in Keys /\ ~last.allowed /\ ~last.error
       /\ RLChecked /\ last'.key = last.key /\ last'.failAt = 0
       /\ \A m \in zset[last.key] : now - cfgWin >= m
       => last'.allowed /\ ~last'.error]_vars

C17_Witness ==
    /\ afterDenial
    /\ last.allowed /\ ~last.error
    /\ last.at = now
    /\ zset[last.key] = {now}

\* C18: for a call without store error, with count the number of entries left
\* in the window after pruning: allowed exactly when count < max_requests;
\* on allow remaining = max_requests - count - 1, within 0..max_requests - 1;
\* on deny remaining = 0; limit = max_requests either way.
C18_DecisionFields ==
    [][RLChecked /\ last'.failAt = 0 =>
          LET count == Cardinality(Surviving(last'.key))
          IN /\ ~last'.error
             /\ last'.allowed <=> count < cfgMax
             /\ last'.allowed =>
                   /\ last'.remaining = cfgMax - count - 1
                   /\ 0 <= last'.remaining /\ last'.remaining < cfgMax
             /\ ~last'.allowed => last'.remaining = 0
             /\ last'.limit = cfgMax]_vars

C18_Witness ==
    /\ last.allowed /\ ~last.error
    /\ cfgMax = 2
    /\ last.count = 1
    /\ last.remaining = 0
    /\ last.limit = 2

C18_WitnessDeny ==
    /\ ~last.allowed /\ ~last.error
    /\ last.key \in Keys
    /\ cfgMax = 2
    /\ last.remaining = 0
    /\ last.limit = 2

\* C19: on a denied check reset_at is the oldest surviving entry's timestamp
\* plus window_seconds (now + window_seconds only if the window is empty), and
\* it is the earliest time at which a retry with no check in between is
\* admitted: denied before reset_at, allowed at or after it.
C19_ResetAt ==
    [][/\ RLChecked /\ last'.failAt = 0 /\ ~last'.allowed =>
            LET live == Surviving(last'.key)
            IN last'.reset_at = IF live # {} THEN Min(live) + cfgWin ELSE now + cfgWin
       /\ /\ last.key \in Keys /\ ~last.allowed /\ ~last.error
          /\ RLChecked /\ last'.key = last.key /\ last'.failAt = 0
          => (last'.allowed <=> now >= last.reset_at)]_vars

C19_Witness ==
    /\ afterDenial
    /\ ~last.allowed /\ ~last.error
    /\ last.at = now
    /\ last.reset_at = now + 1
    /\ zset[last.key] # {}

\* a first denial with two entries in the window: reset_at follows the older
C19_WitnessOldest ==
    /\ ~last.allowed /\ ~last.error
    /\ last.key \in Keys
    /\ Cardinality(zset[last.key]) = 2
    /\ last.reset_at = Min(zset[last.key]) + cfgWin
    /\ last.reset_at = now + 1

C19_WitnessAdmitted ==
    /\ afterDenial
    /\ last.allowed /\ ~last.error
    /\ cfgWin = 2
    /\ last.at = now

\* C26: the permission_checker built by server.require_permission(p) has
\* only two outcomes for any token and any passage of time while it runs: the
\* 403 HTTP error, or the verified payload; the second verify_token it makes
\* after has_permission succeeded never lets a verification error escape
\* unhandled.
C26_TwoOutcomes ==
    sres.kind = "require_permission"
        => sres.status \in {HTTP_200, HTTP_403_FORBIDDEN}

\* the token expired between has_permission and the second verify_token
C26_WitnessEscaped ==
    /\ sres.kind = "require_permission"
    /\ sres.status = HTTP_500
    /\ sres.detail = ErrorDetail("expired")
    /\ has_permission(tok, sres.perm, sres.at).value
    /\ now = sres.at + 1

\* C21: has_permission(token, p) depends only on the token (signature, expiry,
\* embedded permission list) and the secret, never on the manager's current
\* role table: whatever the table is now, the answer is the one the embedded
\* list gives, so changing a role after issuance changes nothing for tokens
\* already issued.
C21_TableIndependent ==
    hres.kind # "none" =>
        /\ hres.kind = "returned"
        /\ hres.value <=>
              /\ ValidlySigned(tok)
              /\ hres.at < tok.claims.exp
              /\ ~HoldsUnknown(tok)
              /\ PermissionValue(hres.perm) \in Range(tok.claims.permissions)

\* a token issued to a role that has since lost the permission still has it
C21_Witness ==
    /\ genuine
    /\ table # InitialTable
    /\ hres.kind = "returned"
    /\ hres.value
    /\ hres.perm \notin Range(table[req.role])
    /\ PermissionValue(hres.perm) \in Range(tok.claims.permissions)

\* a token issued before a role was raised does not gain the new permission
C21_WitnessUpgrade ==
    /\ genuine
    /\ hres.kind = "returned"
    /\ hres.at < tok.claims.exp
    /\ ~hres.value
    /\ hres.perm \in Range(table[req.role])

\* ============================================================ API server
\* /api/review and /api/autofix: Depends(verify_token), then
\* Depends(check_rate_limit), then the endpoint body. The client is the host
\* of the key ip_limit:h1; TrackedUser is the user of the key user_limit:u1.
TrackedUser == "user_123"
UserKey == "user_limit:u1"
IpKey == "ip_limit:h1"
HTTP_429_TOO_MANY_REQUESTS == 429

\* HTTPBearer without credentials answers 403; otherwise server.verify_token
authenticate(token, t) ==
    IF token = NoneToken
    THEN [status |-> HTTP_403_FORBIDDEN, detail |-> "Not authenticated", named |-> ""]
    ELSE server_verify_token(token, t)

\* server.check_rate_limit for a request of the client at clock value t, on
\* the store (Z, E). The user's window is checked first and a denial raises
\* 429 at once; then the IP's window. otherDenied is the user check's verdict
\* for a user other than TrackedUser, whose window is not followed. down: the
\* store is unreachable during the request.
server_check_rate_limit(token, Z, E, max_requests, window, otherDenied, down, t) ==
    LET d == verify_token(token, t)
        user_id == IF token # NoneToken /\ d.kind = "payload" THEN d.payload.user_id ELSE ""
        failAt == IF down THEN 1 ELSE 0
        u == check_rate_limit(Z[UserKey], E[UserKey], UserKey, max_requests, window, t, failAt)
        tracked == user_id = TrackedUser
        Zu == IF tracked THEN [Z EXCEPT ![UserKey] = u.zset] ELSE Z
        Eu == IF tracked THEN [E EXCEPT ![UserKey] = u.expiry] ELSE E
        i == check_rate_limit(Zu[IpKey], Eu[IpKey], IpKey, max_requests, window, t, failAt)
    IN IF tracked /\ ~u.decision.allowed
       THEN [status |-> HTTP_429_TOO_MANY_REQUESTS, detail |-> "User rate limit exceeded",
             zset |-> Zu, expiry |-> Eu, checks |-> 1, last |-> u.decision]
       ELSE IF user_id # "" /\ ~tracked /\ otherDenied
       THEN [status |-> HTTP_429_TOO_MANY_REQUESTS, detail |-> "User rate limit exceeded",
             zset |-> Z, expiry |-> E, checks |-> 1, last |-> NoDecision]
       ELSE [status |-> IF i.decision.allowed THEN HTTP_200 ELSE HTTP_429_TOO_MANY_REQUESTS,
             detail |-> IF i.decision.allowed THEN "" ELSE "IP rate limit exceeded",
             zset |-> [Zu EXCEPT ![IpKey] = i.zset],
             expiry |-> [Eu EXCEPT ![IpKey] = i.expiry],
             checks |-> IF user_id # "" THEN 2 ELSE 1, last |-> i.decision]

\* an endpoint whose dependencies are resolved in the other order
endpoint_limit_first(token, Z, E, max_requests, window, otherDenied, down, t) ==
    LET a == authenticate(token, t)
        r == server_check_rate_limit(token, Z, E, max_requests, window, otherDenied, down, t)
    IN IF r.status # HTTP_200 \/ a.status = HTTP_200 THEN r
       ELSE [status |-> a.status, detail |-> a.detail, zset |-> r.zset,
             expiry |-> r.expiry, checks |-> r.checks, last |-> r.last]

\* one request to a rate-limited endpoint: the dependencies in declaration
\* order, the first HTTPException ends the request
endpoint(token, Z, E, max_requests, window, otherDenied, down, t) ==
    LET a == authenticate(token, t)
    IN IF a.status # HTTP_200
       THEN [status |-> a.status, detail |-> a.detail, zset |-> Z, expiry |-> E,
             checks |-> 0, last |-> NoDecision]
       ELSE server_check_rate_limit(token, Z, E, max_requests, window, otherDenied, down, t)

Request(otherDenied, down) ==
    /\ LET out == endpoint(tok, zset, expiry, cfgMax, cfgWin, otherDenied, down, now)
       IN /\ sres' = [kind |-> "request", perm |-> "", status |-> out.status,
                      detail |-> out.detail, named |-> "", at |-> now]
          /\ zset' = out.zset
          /\ expiry' = out.expiry
          /\ last' = IF out.last = NoDecision THEN last ELSE out.last
          /\ afterDenial' = IF out.last = NoDecision THEN afterDenial ELSE FALSE
          /\ reqChecks' = out.checks
    /\ vres' = NoResult /\ hres' = NoHas /\ wres' = NoWrap
    /\ UNCHANGED <<now, cfgMax, cfgWin, admitted, rlcVars, cbVars, cbcVars,
                   tok, req, genuine, opState, table>>

\* the client picks up a token: one issued to a user for an hour, the other
\* issuer's, a corrupted one, or none
Present(u, how) ==
    /\ tok' = CASE how = "issued" -> create_token(u, "DEVELOPER", 1, now)
                [] how = "encode_token" -> encode_token(u, now)
                [] how = "garbage" -> Malformed
                [] how = "none" -> NoneToken
    /\ req' = [user_id |-> u, role |-> "DEVELOPER", expires_in_hours |-> 1]
    /\ genuine' = (how = "issued")
    /\ vres' = NoResult /\ hres' = NoHas /\ wres' = NoWrap /\ sres' = NoResp
    /\ UNCHANGED <<now, rlVars, rlcVars, cbVars, cbcVars, opState, table, reqChecks>>

InitPipeline == now = 0 /\ RLInit /\ RLCInit /\ CBIdle /\ RBInit
NextPipeline ==
    \/ \E u \in UserIds, how \in {"issued", "encode_token", "garbage", "none"} :
          Present(u, how)
    \/ \E otherDenied \in BOOLEAN, down \in BOOLEAN : Request(otherDenied, down)
    \/ Tick
SpecPipeline == InitPipeline /\ [][NextPipeline]_vars

\* a step in which a request to a rate-limited endpoint was answered
RequestMade ==
    /\ sres'.kind = "request"
    /\ \/ sres' # sres \/ zset' # zset \/ expiry' # expiry
       \/ reqChecks' # reqChecks \/ last' # last

\* C22: on the rate-limited endpoints authentication comes before rate
\* limiting: a request whose credentials are missing, invalid or expired is
\* rejected by the authentication step, check_rate_limit is never run for it
\* and no user or IP window records a timestamp.
C22_AuthBeforeLimit ==
    [][/\ RequestMade
       /\ tok = NoneToken \/ ~ValidlySigned(tok) \/ tok.claims.exp <= now
       => /\ sres'.status \in {401, 403}
          /\ reqChecks' = 0
          /\ zset' = zset /\ expiry' = expiry /\ last' = last]_vars

C22_Witness ==
    /\ sres.kind = "request"
    /\ sres.status = 401
    /\ sres.detail = "Token has expired"
    /\ genuine /\ req.user_id = TrackedUser
    /\ sres.at = now
    /\ reqChecks = 0
    /\ now \notin zset[UserKey] /\ now \notin zset[IpKey]
    /\ zset[IpKey] # {}

\* C25: a request that server.check_rate_limit rejects with 429, for the user
\* limit or for the IP limit, has recorded no timestamp in the user's window
\* nor in the IP's window.
C25_RejectedConsumesNothing ==
    [][RequestMade /\ sres'.status = 429 =>
          /\ zset'[UserKey] \subseteq zset[UserKey]
          /\ zset'[IpKey] \subseteq zset[IpKey]]_vars

\* rejected for the IP limit, with the request's timestamp in the user's window
C25_Witness ==
    /\ sres.kind = "request"
    /\ sres.status = 429
    /\ sres.detail = "IP rate limit exceeded"
    /\ sres.at = now
    /\ genuine /\ req.user_id = TrackedUser
    /\ reqChecks = 2
    /\ now \in zset[UserKey]
    /\ cfgMax = 2 /\ Cardinality(zset[UserKey]) = 1

====
